---- MODULE Spec2Model ----
(***************************************************************************)
(* songs2docx: the renderer (songs2docx.py) and the preprocessor           *)
(* (prepare_song_txt_files.py) as state machines over small file systems.  *)
(*                                                                         *)
(* Strings are sequences of one-character strings; offsets are 0-based as  *)
(* in Python, Slice(s, a, b) is s[a:b].                                    *)
(***************************************************************************)
EXTENDS Integers, Sequences, FiniteSets, TLC

VARIABLES
    prog,        \* which main() runs: "songs2docx" or "prepare_song_txt_files"
    args,        \* the parsed command line: force_overwrite, suppress_error_output
    file_paths,  \* main's file_paths list (file names, one directory)
    fidx,        \* index of the file the batch loop is at
    pc,          \* position of main
    excel,       \* the Excel database on disk: whether it can be read, and its rows
    pp,          \* main's PreprocessTxt object (loaded is FALSE for None)
    rawfs,       \* the preprocessor's input files: file name -> content
    txtfs,       \* the annotated text files: file name -> content
    docxfs,      \* the output documents: file name -> document
    obj,         \* the Txt2Docx object under construction
    txt,         \* the Txt object returned by preprocess (some is FALSE for None)
    log          \* what main printed, in order

vars == <<prog, args, file_paths, fidx, pc, excel, pp, rawfs, txtfs, docxfs, obj, txt, log>>

-----------------------------------------------------------------------------
(* Characters and Python string primitives                                 *)

NL == "\n"
NBSP == "nbsp"
TAB == "\t"

\* Python's None and a missing file; both differ from every string
None == <<"<None>">>
NoFile == <<"<NoFile>">>

Min(a, b) == IF a < b THEN a ELSE b

\* s[a:b] for 0 <= a
Slice(s, a, b) == SubSeq(s, a + 1, Min(b, Len(s)))

\* s[a:]
SliceFrom(s, a) == SubSeq(s, a + 1, Len(s))

StartsWith(s, p) == Len(s) >= Len(p) /\ SubSeq(s, 1, Len(p)) = p

EndsWith(s, p) == Len(s) >= Len(p) /\ SubSeq(s, Len(s) - Len(p) + 1, Len(s)) = p

IsSpace(c) == c \in {" ", NBSP, TAB}

RECURSIVE LStrip(_)
LStrip(s) == IF s # <<>> /\ IsSpace(Head(s)) THEN LStrip(Tail(s)) ELSE s

RECURSIVE RStrip(_)
RStrip(s) == IF s # <<>> /\ IsSpace(s[Len(s)]) THEN RStrip(SubSeq(s, 1, Len(s) - 1)) ELSE s

\* str.strip()
Strip(s) == RStrip(LStrip(s))

\* the sharp s U+00DF
ESZETT == "eszett"

\* str.upper() of one character; the result is a string (sharp s becomes "SS")
UpperChar(c) ==
    CASE c = "a" -> <<"A">>
      [] c = "b" -> <<"B">>
      [] c = "v" -> <<"V">>
      [] c = "x" -> <<"X">>
      [] c = ESZETT -> <<"S", "S">>
      [] OTHER -> <<c>>

RECURSIVE Upper(_)
Upper(s) == IF s = <<>> THEN <<>> ELSE UpperChar(Head(s)) \o Upper(Tail(s))

\* str.replace(a, b) for a single character a
RECURSIVE ReplaceChar(_, _, _)
ReplaceChar(s, a, b) ==
    IF s = <<>> THEN <<>>
    ELSE (IF Head(s) = a THEN b ELSE <<Head(s)>>) \o ReplaceChar(Tail(s), a, b)

RECURSIVE Concat(_)
Concat(ss) == IF ss = <<>> THEN <<>> ELSE Head(ss) \o Concat(Tail(ss))

\* sep.join(ss)
RECURSIVE Join(_, _)
Join(ss, sep) ==
    IF ss = <<>> THEN <<>>
    ELSE IF Len(ss) = 1 THEN ss[1]
    ELSE ss[1] \o sep \o Join(Tail(ss), sep)

\* str.split(sep) for a separator of one character: the pieces between the
\* occurrences of sep, always at least one element
Split(s, sep) ==
    LET at == {i \in 1..Len(s) : s[i] = sep}
        n == Cardinality(at)
        cut(k) == IF k = 0 THEN 0
                  ELSE IF k = n + 1 THEN Len(s) + 1
                  ELSE CHOOSE i \in at : Cardinality({j \in at : j < i}) = k - 1
    IN [k \in 1..(n + 1) |-> SubSeq(s, cut(k - 1) + 1, cut(k) - 1)]

\* str.splitlines(): no element for an empty string or after a final newline
splitlines(s) ==
    IF s = <<>> THEN <<>>
    ELSE IF s[Len(s)] = NL THEN Split(SubSeq(s, 1, Len(s) - 1), NL)
    ELSE Split(s, NL)

\* str.find(sub, start): offset of the first occurrence at or after start, or -1
RECURSIVE Find(_, _, _)
Find(s, sub, start) ==
    IF start + Len(sub) > Len(s) THEN -1
    ELSE IF SubSeq(s, start + 1, start + Len(sub)) = sub THEN start
    ELSE Find(s, sub, start + 1)

\* the while loop of _find_all_substrings
RECURSIVE FindAllFrom(_, _, _)
FindAllFrom(search_str, sub_str, start) ==
    LET pos == Find(search_str, sub_str, start)
    IN IF pos = -1 THEN <<>>
       ELSE <<pos>> \o FindAllFrom(search_str, sub_str, pos + Len(sub_str))

find_all_substrings(search_str, sub_str) == FindAllFrom(search_str, sub_str, 0)

\* [m.start() for m in re.finditer(pattern, text)] for a literal pattern
ReFindIterStarts(pattern, text) == FindAllFrom(text, pattern, 0)

-----------------------------------------------------------------------------
(* Exceptions                                                              *)

NoErr == [type |-> "None"]

KeyNotDefined(key, line_no) ==
    [type |-> "ValueError", what |-> "KeyNotDefined", key |-> key, line_no |-> line_no]

TagCountMismatch(n_start, n_end) ==
    [type |-> "ValueError", what |-> "TagCount", starts |-> n_start, ends |-> n_end]

NotAscending(total_indices) ==
    [type |-> "ValueError", what |-> "NotAscending", indices |-> total_indices]

IndexError(where) == [type |-> "IndexError", where |-> where]

TypeError(where) == [type |-> "TypeError", where |-> where]

FloatError == [type |-> "ValueError", what |-> "float"]

FileNotFound(fn) == [type |-> "FileNotFoundError", fn |-> fn]

FileExists(fn_out) == [type |-> "FileExistsError", fn |-> fn_out]

-----------------------------------------------------------------------------
(* songs2docx.py: Txt2Docx._read_file                                      *)

KeyChars(key) ==
    CASE key = "TITLE" -> <<"T", "I", "T", "L", "E">>
      [] key = "TITLE_ORIGINAL" -> <<"T", "I", "T", "L", "E", "_", "O", "R", "I", "G", "I", "N", "A", "L">>
      [] key = "LANG_ORIGINAL" -> <<"L", "A", "N", "G", "_", "O", "R", "I", "G", "I", "N", "A", "L">>
      [] key = "YEAR_ORIGINAL" -> <<"Y", "E", "A", "R", "_", "O", "R", "I", "G", "I", "N", "A", "L">>
      [] key = "YEAR_TRANSLATION" -> <<"Y", "E", "A", "R", "_", "T", "R", "A", "N", "S", "L", "A", "T", "I", "O", "N">>
      [] key = "GERMAN_TRANSLATION" -> <<"G", "E", "R", "M", "A", "N", "_", "T", "R", "A", "N", "S", "L", "A", "T", "I", "O", "N">>
      [] key = "REF_NO" -> <<"R", "E", "F", "_", "N", "O">>
      [] key = "CAPO" -> <<"C", "A", "P", "O">>
      [] key = "AUTHORS" -> <<"A", "U", "T", "H", "O", "R", "S">>
      [] key = "COPYRIGHT" -> <<"C", "O", "P", "Y", "R", "I", "G", "H", "T">>
      [] key = "TAB_INDENT" -> <<"T", "A", "B", "_", "I", "N", "D", "E", "N", "T">>

\* f"{key}="
KeyPrefix(key) == KeyChars(key) \o <<"=">>

\* the dict keys of _read_file, in insertion order, with the mandatory flag
keys ==
    << [key |-> "TITLE", mand |-> TRUE],
       [key |-> "TITLE_ORIGINAL", mand |-> FALSE],
       [key |-> "REF_NO", mand |-> FALSE],
       [key |-> "CAPO", mand |-> FALSE],
       [key |-> "AUTHORS", mand |-> TRUE],
       [key |-> "COPYRIGHT", mand |-> TRUE],
       [key |-> "TAB_INDENT", mand |-> FALSE] >>

\* values.get(key): the dict is a sequence of (key, value) in insertion order
RECURSIVE DictGet(_, _)
DictGet(values, key) ==
    IF values = <<>> THEN None
    ELSE IF Head(values).key = key THEN Head(values).value
    ELSE DictGet(Tail(values), key)

\* the for loop over keys.items(), from the k-th key on
RECURSIVE ReadMeta(_, _, _, _)

\* the loop deleting a matched line only when its value is kept
ReadMetaKeepingBlank(k, lines, values, line_no) ==
    IF k > Len(keys)
    THEN [err |-> NoErr, lines |-> lines, values |-> values, line_no |-> line_no]
    ELSE IF Len(lines) >= 0 /\ lines = <<>>
    THEN [err |-> IndexError("lines[0]"), lines |-> lines, values |-> values, line_no |-> line_no]
    ELSE LET key == keys[k].key
             line == lines[1]
             matched == StartsWith(line, KeyPrefix(key))
             value == IF matched THEN SliceFrom(line, Len(KeyPrefix(key))) ELSE None
             line_no2 == IF matched THEN line_no + 1 ELSE line_no
         IN IF value # None /\ Strip(value) # <<>>
            THEN ReadMeta(k + 1, Tail(lines), Append(values, [key |-> key, value |-> value]), line_no2)
            ELSE IF keys[k].mand
            THEN [err |-> KeyNotDefined(key, line_no2), lines |-> lines,
                  values |-> values, line_no |-> line_no2]
            ELSE ReadMeta(k + 1, lines, values, line_no2)

\* the loop storing the trimmed value
ReadMetaStoringTrimmed(k, lines, values, line_no) ==
    IF k > Len(keys)
    THEN [err |-> NoErr, lines |-> lines, values |-> values, line_no |-> line_no]
    ELSE IF Len(lines) >= 0 /\ lines = <<>>
    THEN [err |-> IndexError("lines[0]"), lines |-> lines, values |-> values, line_no |-> line_no]
    ELSE LET key == keys[k].key
             line == lines[1]
             matched == StartsWith(line, KeyPrefix(key))
             value == IF matched THEN SliceFrom(line, Len(KeyPrefix(key))) ELSE None
             line_no2 == IF matched THEN line_no + 1 ELSE line_no
             lines2 == IF matched THEN Tail(lines) ELSE lines
         IN IF value # None /\ Strip(value) # <<>>
            THEN ReadMeta(k + 1, lines2, Append(values, [key |-> key, value |-> Strip(value)]), line_no2)
            ELSE IF keys[k].mand
            THEN [err |-> KeyNotDefined(key, line_no2), lines |-> lines2,
                  values |-> values, line_no |-> line_no2]
            ELSE ReadMeta(k + 1, lines2, values, line_no2)

ReadMeta(k, lines, values, line_no) ==
    IF k > Len(keys)
    THEN [err |-> NoErr, lines |-> lines, values |-> values, line_no |-> line_no]
    ELSE IF Len(lines) >= 0 /\ lines = <<>>
    THEN [err |-> IndexError("lines[0]"), lines |-> lines, values |-> values, line_no |-> line_no]
    ELSE LET key == keys[k].key
             line == lines[1]
             matched == StartsWith(line, KeyPrefix(key))
             value == IF matched THEN SliceFrom(line, Len(KeyPrefix(key))) ELSE None
             line_no2 == IF matched THEN line_no + 1 ELSE line_no
             lines2 == IF matched THEN Tail(lines) ELSE lines
         IN IF value # None /\ Strip(value) # <<>>
            THEN ReadMeta(k + 1, lines2, Append(values, [key |-> key, value |-> value]), line_no2)
            ELSE IF keys[k].mand
            THEN [err |-> KeyNotDefined(key, line_no2), lines |-> lines2,
                  values |-> values, line_no |-> line_no2]
            ELSE ReadMeta(k + 1, lines2, values, line_no2)

IsDigit(c) == c \in {"0", "1", "2", "3", "4", "5", "6", "7", "8", "9"}

\* float(s) succeeds: digits with at most one decimal point
IsFloat(s) ==
    LET t == Strip(s)
    IN /\ \E i \in 1..Len(t) : IsDigit(t[i])
       /\ \A i \in 1..Len(t) : IsDigit(t[i]) \/ t[i] = "."
       /\ Cardinality({i \in 1..Len(t) : t[i] = "."}) <= 1

RECURSIVE ReadBlocks(_, _, _, _)

\* the block loop with the final append made only for an open block
ReadBlocksAppendOpenOnly(lines, start_block, block, text) ==
    IF lines = <<>> THEN (IF start_block THEN Append(text, block) ELSE text)
    ELSE LET line == ReplaceChar(Strip(Head(lines)), NBSP, <<" ">>)
         IN IF line # <<>>
            THEN IF start_block
                 THEN ReadBlocks(Tail(lines), TRUE, block \o <<NL>> \o line, text)
                 ELSE ReadBlocks(Tail(lines), TRUE, line, text)
            ELSE IF start_block
                 THEN ReadBlocks(Tail(lines), FALSE, None, Append(text, block))
                 ELSE ReadBlocks(Tail(lines), start_block, block, text)

\* the block loop of _read_file: self._text after the loop and the final append
ReadBlocks(lines, start_block, block, text) ==
    IF lines = <<>> THEN Append(text, block)
    ELSE LET line == ReplaceChar(Strip(Head(lines)), NBSP, <<" ">>)
         IN IF line # <<>>
            THEN IF start_block
                 THEN ReadBlocks(Tail(lines), TRUE, block \o <<NL>> \o line, text)
                 ELSE ReadBlocks(Tail(lines), TRUE, line, text)
            ELSE IF start_block
                 THEN ReadBlocks(Tail(lines), FALSE, None, Append(text, block))
                 ELSE ReadBlocks(Tail(lines), start_block, block, text)

DefaultTabIndent == <<"1", "1", ".", "6", "4">>

\* the members set by Txt2Docx.__init__ before _read_file runs
NewObj(filename) ==
    [filename |-> filename, err |-> NoErr, values |-> <<>>, line_no |-> 0,
     body |-> <<>>, title |-> None, title_original |-> None, ref_no |-> None,
     capo |-> None, authors |-> None, copyright |-> None,
     tab_indent |-> DefaultTabIndent, text |-> <<>>,
     document |-> <<>>, rendered |-> <<>>]

\* _read_file on the object o, content being the text of the file
read_file(o, content) ==
    LET m == ReadMeta(1, splitlines(content), <<>>, 0)
        v == m.values
        title_original == IF DictGet(v, "TITLE_ORIGINAL") # None
                          THEN Strip(DictGet(v, "TITLE_ORIGINAL")) ELSE o.title_original
        withMeta == [o EXCEPT !.values = v, !.line_no = m.line_no, !.body = m.lines]
    IN IF m.err # NoErr THEN [withMeta EXCEPT !.err = m.err]
       ELSE LET o1 == [withMeta EXCEPT
                         !.title = Upper(Strip(DictGet(v, "TITLE"))),
                         !.title_original = title_original,
                         !.ref_no = IF DictGet(v, "REF_NO") # None
                                    THEN Strip(DictGet(v, "REF_NO")) ELSE None,
                         !.capo = IF DictGet(v, "CAPO") # None
                                  THEN Strip(DictGet(v, "CAPO")) ELSE title_original,
                         !.authors = Strip(DictGet(v, "AUTHORS")),
                         !.copyright = Strip(DictGet(v, "COPYRIGHT"))]
            IN IF DictGet(v, "TAB_INDENT") # None /\ ~IsFloat(DictGet(v, "TAB_INDENT"))
               THEN [o1 EXCEPT !.err = FloatError]
               ELSE [o1 EXCEPT
                       !.tab_indent = IF DictGet(v, "TAB_INDENT") # None
                                      THEN Strip(DictGet(v, "TAB_INDENT")) ELSE o.tab_indent,
                       !.text = ReadBlocks(m.lines, FALSE, None, o.text)]

-----------------------------------------------------------------------------
(* songs2docx.py: Txt2Docx._get_bold_indices and _build_document           *)

BOLD_OPEN == <<"<", "b", ">">>
BOLD_CLOSE == <<"<", "/", "b", ">">>

\* list(zip(a, b)) for lists of equal length
Zip(a, b) == [i \in 1..Len(a) |-> <<a[i], b[i]>>]

\* _get_bold_indices without the comparison of the two counts
get_bold_indices_unchecked(text) ==
    IF text = None THEN [err |-> TypeError("re.finditer"), bold_indices |-> <<>>]
    ELSE LET bold_start_indices == ReFindIterStarts(BOLD_OPEN, text)
             bold_end_indices == ReFindIterStarts(BOLD_CLOSE, text)
             n == Min(Len(bold_start_indices), Len(bold_end_indices))
         IN [err |-> NoErr,
             bold_indices |-> Zip(SubSeq(bold_start_indices, 1, n), SubSeq(bold_end_indices, 1, n))]

\* _get_bold_indices; re.finditer raises TypeError on None
get_bold_indices(text) ==
    IF text = None THEN [err |-> TypeError("re.finditer"), bold_indices |-> <<>>]
    ELSE LET bold_start_indices == ReFindIterStarts(BOLD_OPEN, text)
             bold_end_indices == ReFindIterStarts(BOLD_CLOSE, text)
         IN IF Len(bold_start_indices) # Len(bold_end_indices)
            THEN [err |-> TagCountMismatch(Len(bold_start_indices), Len(bold_end_indices)),
                  bold_indices |-> <<>>]
            ELSE [err |-> NoErr, bold_indices |-> Zip(bold_start_indices, bold_end_indices)]

\* [index for pair in bold_indices for index in pair]
total_indices(bold_indices) ==
    [k \in 1..(2 * Len(bold_indices)) |-> bold_indices[(k + 1) \div 2][2 - (k % 2)]]

RECURSIVE Insert(_, _)
Insert(x, s) ==
    IF s = <<>> THEN <<x>>
    ELSE IF x <= Head(s) THEN <<x>> \o s
    ELSE <<Head(s)>> \o Insert(x, Tail(s))

\* sorted(list)
RECURSIVE sorted(_)
sorted(s) == IF s = <<>> THEN <<>> ELSE Insert(Head(s), sorted(Tail(s)))

\* the check made on each pair alone: start before end
IndicesAscendingPairwise(bold_indices) ==
    \A i \in 1..Len(bold_indices) : bold_indices[i][1] <= bold_indices[i][2]

\* the check left out
IndicesAscendingUnchecked(bold_indices) == TRUE

\* the check of _build_document that raises the not-in-ascending-order error
IndicesAscending(bold_indices) ==
    total_indices(bold_indices) = sorted(total_indices(bold_indices))

\* block[0].upper() + block[1:], for a non-empty block
CapFirst(block) == UpperChar(block[1]) \o Tail(block)

\* re.sub(r"[A|V]: .", lambda m: m.group(0).upper(), block)
RECURSIVE SubLabel(_)
SubLabel(s) ==
    IF s = <<>> THEN <<>>
    ELSE IF Len(s) >= 4 /\ s[1] \in {"A", "|", "V"} /\ s[2] = ":" /\ s[3] = " " /\ s[4] # NL
    THEN Upper(SubSeq(s, 1, 4)) \o SubLabel(SubSeq(s, 5, Len(s)))
    ELSE <<Head(s)>> \o SubLabel(Tail(s))

\* the test made against the first pair only
within_first_bold_block(bold_indices, newlines_position) ==
    /\ bold_indices # <<>>
    /\ bold_indices[1][1] < newlines_position /\ newlines_position < bold_indices[1][2]

\* start < newlines_position < end for some pair
within_bold_block(bold_indices, newlines_position) ==
    \E i \in 1..Len(bold_indices) :
        bold_indices[i][1] < newlines_position /\ newlines_position < bold_indices[i][2]

\* the loop over newlines_positions, from the np-th newline on
RECURSIVE InjectFrom(_, _, _, _)
InjectFrom(np, newlines_positions, bold_indices, new_text_block) ==
    IF np > Len(newlines_positions) THEN new_text_block
    ELSE IF within_bold_block(bold_indices, newlines_positions[np])
    THEN InjectFrom(np + 1, newlines_positions, bold_indices,
                    [new_text_block EXCEPT ![np] = @ \o BOLD_CLOSE,
                                           ![np + 1] = BOLD_OPEN \o @])
    ELSE InjectFrom(np + 1, newlines_positions, bold_indices, new_text_block)

\* the lines of a text block after capitalization, without the tag injection
ReflowWithoutInjection(text_block, bold_indices) ==
    LET split == Split(text_block, NL)
    IN [b \in 1..Len(split) |-> SubLabel(CapFirst(split[b]))]

\* the lines of a validated text block after capitalization and tag injection
Reflow(text_block, bold_indices) ==
    LET newlines_positions == find_all_substrings(text_block, <<NL>>)
        split == Split(text_block, NL)
        capped == [b \in 1..Len(split) |-> SubLabel(CapFirst(split[b]))]
    IN IF Len(bold_indices) > 0
       THEN InjectFrom(1, newlines_positions, bold_indices, capped)
       ELSE capped

Run(text, bold) == [text |-> text, bold |-> bold, highlight |-> FALSE]

\* document.add_paragraph(text, style): a run is added only for a non-empty text
add_paragraph(text, style) ==
    [style |-> style, runs |-> IF text # <<>> THEN <<Run(text, FALSE)>> ELSE <<>>]

RECURSIVE RunsFrom(_, _, _, _)

\* the loop with the bold run cut at start instead of start + 3
RunsFromKeepingTag(line, bold_indices, i, pos) ==
    IF i > Len(bold_indices)
    THEN IF pos < Len(line) THEN <<Run(SliceFrom(line, pos), FALSE)>> ELSE <<>>
    ELSE LET start == bold_indices[i][1]
             end == bold_indices[i][2]
         IN (IF start > pos THEN <<Run(Slice(line, pos, start), FALSE)>> ELSE <<>>)
            \o <<Run(Slice(line, start, end), TRUE)>>
            \o RunsFrom(line, bold_indices, i + 1, end + 4)

\* the "Handle runs" loop and the trailing run of one line
RunsFrom(line, bold_indices, i, pos) ==
    IF i > Len(bold_indices)
    THEN IF pos < Len(line) THEN <<Run(SliceFrom(line, pos), FALSE)>> ELSE <<>>
    ELSE LET start == bold_indices[i][1]
             end == bold_indices[i][2]
         IN (IF start > pos THEN <<Run(Slice(line, pos, start), FALSE)>> ELSE <<>>)
            \o <<Run(Slice(line, start + 3, end), TRUE)>>
            \o RunsFrom(line, bold_indices, i + 1, end + 4)

\* the loop "for line in new_text_block" appending to the document d
RECURSIVE RenderLines(_, _)
RenderLines(lines, d) ==
    IF lines = <<>> THEN d
    ELSE LET line == Head(lines)
             bi == get_bold_indices(line)
         IN IF bi.err # NoErr THEN [d EXCEPT !.err = bi.err]
            ELSE RenderLines(Tail(lines),
                     [d EXCEPT !.document = Append(@, [style |-> "text",
                                     runs |-> RunsFrom(line, bi.bold_indices, 1, 0)]),
                               !.rendered = Append(@, line)])

\* one iteration of the loop over self._text: block tb of text
RenderBlock(text, tb, d) ==
    LET text_block == text[tb]
        bi == get_bold_indices(text_block)
    IN IF bi.err # NoErr THEN [d EXCEPT !.err = bi.err]
       ELSE IF ~IndicesAscending(bi.bold_indices)
       THEN [d EXCEPT !.err = NotAscending(total_indices(bi.bold_indices))]
       ELSE IF \E b \in 1..Len(Split(text_block, NL)) : Split(text_block, NL)[b] = <<>>
       THEN [d EXCEPT !.err = IndexError("block[0]")]
       ELSE LET d1 == RenderLines(Reflow(text_block, bi.bold_indices), d)
            IN IF d1.err # NoErr THEN d1
               ELSE IF tb < Len(text)
               THEN [d1 EXCEPT !.document = Append(@, add_paragraph(<<>>, "empty_line"))]
               ELSE d1

RECURSIVE RenderText(_, _, _)
RenderText(text, tb, d) ==
    IF tb > Len(text) \/ d.err # NoErr THEN d
    ELSE RenderText(text, tb + 1, RenderBlock(text, tb, d))

\* _build_document on the object o
build_document(o) ==
    LET title == IF o.title_original # None
                 THEN o.title \o <<" ", "#", " ">> \o o.title_original ELSE o.title
        p == add_paragraph(title, "title")
        ptitle == IF o.ref_no # None
                  THEN [p EXCEPT !.runs = @ \o <<Run(<<TAB>>, FALSE),
                                                 [Run(o.ref_no, FALSE) EXCEPT !.highlight = TRUE]>>]
                  ELSE p
        authors == IF o.capo # None
                   THEN o.authors \o <<TAB, "C", "a", "p", "o", " ">> \o o.capo ELSE o.authors
        head == <<ptitle, add_paragraph(authors, "authors"), add_paragraph(<<>>, "empty_line")>>
        d == RenderText(o.text, 1, [o EXCEPT !.document = head, !.rendered = <<>>])
    IN IF d.err # NoErr THEN d
       ELSE [d EXCEPT !.document = @ \o <<add_paragraph(<<>>, "empty_line"),
                                          add_paragraph(o.copyright, "empty_line")>>]

-----------------------------------------------------------------------------
(* songs2docx.py: Txt2Docx.save and main                                   *)

DOT_TXT == <<".", "t", "x", "t">>
DOT_DOCX == <<".", "d", "o", "c", "x">>

\* an existence test that never finds the file
ExistsNever(fs, name) == FALSE

\* os.path.exists(name) in a directory fs, and fs after writing a file
Exists(fs, name) == name \in DOMAIN fs

WriteFile(fs, name, content) ==
    [f \in DOMAIN fs \cup {name} |-> IF f = name THEN content ELSE fs[f]]

\* the default output file name of Txt2Docx.save
DocxName(filename) ==
    (IF EndsWith(filename, DOT_TXT) THEN SubSeq(filename, 1, Len(filename) - 4) ELSE filename)
    \o DOT_DOCX

Printed(file, event, e) == [file |-> file, event |-> event, err |-> e]

\* the loop moves on to the next file
NextFile ==
    /\ fidx' = fidx + 1
    /\ pc' = IF fidx + 1 > Len(file_paths) THEN "done" ELSE "file"

\* the handler re-raising whatever suppress_error_output says
ExceptReraising(printed, file, e) ==
    /\ log' = log \o printed \o <<Printed(file, "ERROR", e)>>
    /\ pc' = "aborted"
    /\ fidx' = fidx

\* "except Exception as e": print, then re-raise unless errors are suppressed
Except(printed, file, e) ==
    /\ log' = log \o printed \o <<Printed(file, "ERROR", e)>>
    /\ IF args.suppress_error_output
       THEN NextFile
       ELSE pc' = "aborted" /\ fidx' = fidx

\* main up to the batch loop: an empty file list is an error unless suppressed
Start ==
    /\ pc = "start"
    /\ prog = "songs2docx"
    /\ pc' = IF file_paths = <<>>
             THEN (IF args.suppress_error_output THEN "done" ELSE "aborted")
             ELSE "file"
    /\ UNCHANGED <<prog, args, file_paths, fidx, excel, pp, rawfs, txtfs, docxfs, obj, txt, log>>

\* Txt2Docx.__init__ up to and including _read_file
ReadFile ==
    /\ pc = "file"
    /\ prog = "songs2docx"
    /\ LET file == file_paths[fidx]
           o == IF file \in DOMAIN txtfs
                THEN read_file(NewObj(file), txtfs[file])
                ELSE [NewObj(file) EXCEPT !.err = FileNotFound(file)]
       IN /\ obj' = o
          /\ IF o.err # NoErr
             THEN Except(<<Printed(file, "Processing", NoErr)>>, file, o.err)
             ELSE /\ log' = Append(log, Printed(file, "Processing", NoErr))
                  /\ pc' = "build"
                  /\ fidx' = fidx
    /\ UNCHANGED <<prog, args, file_paths, excel, pp, rawfs, txtfs, docxfs, txt>>

\* the rest of Txt2Docx.__init__: _build_document
BuildDocument ==
    /\ pc = "build"
    /\ prog = "songs2docx"
    /\ LET file == file_paths[fidx]
           o == build_document(obj)
       IN /\ obj' = o
          /\ IF o.err # NoErr
             THEN Except(<<>>, file, o.err)
             ELSE pc' = "save" /\ UNCHANGED <<fidx, log>>
    /\ UNCHANGED <<prog, args, file_paths, excel, pp, rawfs, txtfs, docxfs, txt>>

\* doc.save(force_overwrite=args.force_overwrite) and the print after it
Save ==
    /\ pc = "save"
    /\ prog = "songs2docx"
    /\ LET file == file_paths[fidx]
           fn_out == DocxName(file)
       IN IF ~Exists(docxfs, fn_out) \/ args.force_overwrite
          THEN /\ docxfs' = WriteFile(docxfs, fn_out, obj.document)
               /\ log' = Append(log, Printed(file, "Finished", NoErr))
               /\ NextFile
          ELSE /\ Except(<<>>, file, FileExists(fn_out))
               /\ UNCHANGED docxfs
    /\ UNCHANGED <<prog, args, file_paths, excel, pp, rawfs, txtfs, obj, txt>>

NextRenderer == Start \/ ReadFile \/ BuildDocument \/ Save

-----------------------------------------------------------------------------
(* prepare_song_txt_files.py: PreprocessTxt                                *)

\* pandas' NaN for an empty cell
NaN == <<"<NaN>">>

isna(v) == v = NaN

\* str.lower() of one character
LowerChar(c) ==
    CASE c = "A" -> "a"
      [] c = "B" -> "b"
      [] c = "E" -> "e"
      [] c = "M" -> "m"
      [] c = "S" -> "s"
      [] c = "V" -> "v"
      [] c = "X" -> "x"
      [] OTHER -> c

Lower(s) == [i \in 1..Len(s) |-> LowerChar(s[i])]

\* str.replace(old, new) for a non-empty old
RECURSIVE Replace(_, _, _)
Replace(s, old, new) ==
    IF s = <<>> THEN <<>>
    ELSE IF StartsWith(s, old) THEN new \o Replace(SubSeq(s, Len(old) + 1, Len(s)), old, new)
    ELSE <<Head(s)>> \o Replace(Tail(s), old, new)

AttributeError(where) == [type |-> "AttributeError", where |-> where]

NotEnoughFields(line) == [type |-> "ValueError", what |-> "NotEnoughFields", line |-> line]

EntryNotFound(title) == [type |-> "ValueError", what |-> "EntryNotFound", title |-> title]

LangNotAssigned(lang) == [type |-> "ValueError", what |-> "LangNotAssigned", lang |-> lang]

\* the default of --country_lang_assignment; None for a code that is not a key
country_lang_assignment(code) ==
    CASE code = <<"A", "T">> -> <<"D", "E">>
      [] code = <<"D", "E">> -> <<"D", "E">>
      [] code = <<"E", "N">> -> <<"E", "N">>
      [] code = <<"U", "S", "A">> -> <<"E", "N">>
      [] code = <<"F", "R">> -> <<"F", "R">>
      [] code = <<"I", "T">> -> <<"I", "T">>
      [] code = <<"N", "L">> -> <<"N", "L">>
      [] code = <<"P", "L">> -> <<"P", "L">>
      [] OTHER -> None

\* the loop of __init__ over the lines of the song name assignment file:
\* the dict as a sequence of entries, a later entry for a key replacing an earlier
RECURSIVE ReadNameChanges(_, _)
ReadNameChanges(data, name_changes) ==
    IF data = <<>> THEN [err |-> NoErr, name_changes |-> name_changes]
    ELSE LET line == Strip(Head(data))
             fields == Split(line, "=")
         IN IF line = <<>> \/ line[1] = "#" THEN ReadNameChanges(Tail(data), name_changes)
            ELSE IF Len(fields) < 2
            THEN [err |-> NotEnoughFields(line), name_changes |-> name_changes]
            ELSE ReadNameChanges(Tail(data),
                     SelectSeq(name_changes, LAMBDA e : e.song_name_file # fields[1])
                     \o <<[song_name_file |-> fields[1],
                           song_name_db |-> Replace(fields[2], <<"\\", "n">>, <<NL>>),
                           output_filename |-> IF Len(fields) >= 3 THEN fields[3] ELSE None]>>)

\* the Excel file: unreadable, or a table of rows
NoDb == [exists |-> FALSE, rows |-> <<>>]
Db(rows) == [exists |-> TRUE, rows |-> rows]

\* the value None of main's variable pp, and of a Txt
NonePP == [loaded |-> FALSE, df |-> <<>>, name_changes |-> <<>>]
NoneTxt == [some |-> FALSE, header |-> <<>>, body |-> <<>>, fn_out |-> <<>>]

\* PreprocessTxt.__init__: the object, or the exception it raises
NewPreprocessTxt(fn_db, song_name_assignment, fs) ==
    IF ~fn_db.exists
    THEN [err |-> FileNotFound(<<"d", "b">>), df |-> <<>>, name_changes |-> <<>>]
    ELSE IF song_name_assignment = None
    THEN [err |-> NoErr, df |-> fn_db.rows, name_changes |-> <<>>]
    ELSE IF ~Exists(fs, song_name_assignment)
    THEN [err |-> FileNotFound(song_name_assignment), df |-> fn_db.rows, name_changes |-> <<>>]
    ELSE LET r == ReadNameChanges(splitlines(fs[song_name_assignment]), <<>>)
         IN [err |-> r.err, df |-> fn_db.rows, name_changes |-> r.name_changes]

\* title in self._name_changes, and self._name_changes[title]
HasNameChange(name_changes, title) ==
    \E i \in 1..Len(name_changes) : name_changes[i].song_name_file = title

NameChange(name_changes, title) ==
    name_changes[CHOOSE i \in 1..Len(name_changes) : name_changes[i].song_name_file = title]

\* self._df.loc[self._df['TITLE'].str.strip().str.lower() == query]
Loc(df, query) ==
    SelectSeq(df, LAMBDA row : ~isna(row.TITLE) /\ Lower(Strip(row.TITLE)) = query)

\* the en dash U+2013
EN_DASH == "ndash"
MESSE == <<"m", "e", "s", "s", "e", " ">>

\* the probes without the one that replaces the en dash
LookupWithoutDashProbe(df, title) ==
    LET first == Loc(df, Lower(title))
        third == Loc(df, MESSE \o ReplaceChar(Lower(title), EN_DASH, <<"-">>))
    IN IF first # <<>> THEN first ELSE third

\* the three probes of preprocess: the matching rows, empty when none matches
Lookup(df, title) ==
    LET first == Loc(df, Lower(title))
        second == Loc(df, ReplaceChar(Lower(title), EN_DASH, <<"-">>))
        third == Loc(df, MESSE \o ReplaceChar(Lower(title), EN_DASH, <<"-">>))
    IN IF first # <<>> THEN first
       ELSE IF second # <<>> THEN second
       ELSE third

TITEL == <<"T", "i", "t", "e", "l", ":">>

\* the index of the first line equal to "Titel:", -1 if there is none (0-based)
TitleIdx(data) ==
    IF \E i \in 1..Len(data) : data[i] = TITEL
    THEN (CHOOSE i \in 1..Len(data) : data[i] = TITEL /\ \A j \in 1..(i - 1) : data[j] # TITEL) - 1
    ELSE -1

\* data[idx] for a Python index that may be -1 .. len - 1
PyIndexOk(data, idx) == idx < Len(data) /\ -idx <= Len(data)
PyIndex(data, idx) == IF idx >= 0 THEN data[idx + 1] ELSE data[Len(data) + idx + 1]

\* del data[idx], three times
DeleteAt(data, idx) ==
    LET i == IF idx >= 0 THEN idx + 1 ELSE Len(data) + idx + 1
    IN SubSeq(data, 1, i - 1) \o SubSeq(data, i + 1, Len(data))

\* the combining double breve below U+035C
TIE == "tie"

\* the "whole file operations" of preprocess
WholeFileOperations(data) ==
    LET d1 == ReplaceChar(data, NBSP, <<" ">>)
        d2 == ReplaceChar(d1, TIE, <<>>)
        d3 == Replace(d2, <<"V", "e", "r", "s", "e", ":", NL>>, <<>>)
        d4 == Replace(d3, <<"R", "E", "F", "R", "A", "I", "N", ":">>,
                          <<"R", "e", "f", "r", "a", "i", "n", ":">>)
        d5 == Replace(d4, <<"R", "e", "f", "r", "a", "i", "n", ":", NL>>, <<"R", ".", " ">>)
        d6 == Replace(d5, <<"C", "O", "D", "A", ":">>, <<"C", "o", "d", "a", ":">>)
    IN Replace(d6, <<"B", "R", "I", "D", "G", "E", ":">>, <<"B", "r", "i", "d", "g", "e", ":">>)

AP == <<"_", "A", "P", "_">>

\* the filename check of preprocess: filename[-14:-10] == "_AP_"
ValidFilename(filename) ==
    Len(filename) >= 14 /\ SubSeq(filename, Len(filename) - 13, Len(filename) - 10) = AP

NotX(v) == ~isna(v) /\ Lower(Strip(v)) # <<"x">>

HeaderLine(key, value) == KeyPrefix(key) \o value \o <<NL>>

\* "Compile header" of preprocess
CompileHeader(title, title_original, lang_original, year_original, year_translation, german_translation, ref_no, copy_right) ==
    HeaderLine("TITLE", title)
    \o (IF NotX(title_original)
        THEN HeaderLine("TITLE_ORIGINAL", title_original)
             \o (IF NotX(lang_original) THEN HeaderLine("LANG_ORIGINAL", lang_original) ELSE <<>>)
             \o (IF NotX(year_original) THEN HeaderLine("YEAR_ORIGINAL", year_original) ELSE <<>>)
             \o (IF NotX(year_translation)
                 THEN HeaderLine("YEAR_TRANSLATION", year_translation) ELSE <<>>)
             \o (IF NotX(german_translation)
                 THEN HeaderLine("GERMAN_TRANSLATION", german_translation) ELSE <<>>)
        ELSE <<>>)
    \o HeaderLine("REF_NO", ref_no)
    \o HeaderLine("CAPO", <<"<", "C", "A", "P", "O", ">">>)
    \o HeaderLine("AUTHORS", copy_right[1])
    \o HeaderLine("COPYRIGHT", copy_right[2])

NoTxt(e) == [err |-> e, txt |-> NoneTxt]

\* preprocess from the database lookup on
PreprocessEntry(p, cur_song_title, data) ==
    LET changed == HasNameChange(p.name_changes, cur_song_title)
        change == NameChange(p.name_changes, cur_song_title)
        tmp_cur_song_title == IF changed THEN change.song_name_db ELSE cur_song_title
        output_filename == IF changed /\ change.output_filename # None
                           THEN change.output_filename ELSE cur_song_title
        entry == Lookup(p.df, tmp_cur_song_title)
    IN IF entry = <<>> THEN NoTxt(EntryNotFound(tmp_cur_song_title))
       ELSE LET row == entry[1]
            IN IF isna(row.COPYRIGHT) THEN NoTxt(AttributeError("splitlines"))
               ELSE LET title == Strip(cur_song_title)
                        title_original == IF ~isna(row.TITLE_ORIGINAL)
                                          THEN Strip(row.TITLE_ORIGINAL) ELSE NaN
                        lang == IF ~isna(row.LANG_ORIGINAL)
                                THEN country_lang_assignment(Strip(row.LANG_ORIGINAL)) ELSE NaN
                        ref_no == IF ~isna(row.REF_NO) THEN Strip(row.REF_NO)
                                  ELSE <<"N", "O", "R", "E", "F">>
                        lines == splitlines(row.COPYRIGHT)
                        copy_right == [i \in 1..Len(lines) |-> Strip(lines[i])]
                        year_translation == IF ~isna(row.YEAR_TRANSLATION)
                                            THEN Strip(row.YEAR_TRANSLATION) ELSE NaN
                    IN IF lang = None THEN NoTxt(LangNotAssigned(row.LANG_ORIGINAL))
                       ELSE IF Len(copy_right) < 2 THEN NoTxt(IndexError("copy_right"))
                       ELSE [err |-> NoErr,
                             txt |-> [some |-> TRUE,
                                      header |-> CompileHeader(title, title_original, lang,
                                                     row.YEAR_ORIGINAL, year_translation,
                                                     row.GERMAN_TRANSLATION, ref_no, copy_right),
                                      body |-> data,
                                      fn_out |-> ReplaceChar(ReplaceChar(output_filename, ":", <<>>),
                                                             "/", <<" ">>)
                                                 \o <<" ">> \o ref_no \o DOT_TXT]]

\* preprocess from "Load file and preprocess its data" on
PreprocessFile(p, filename, fs) ==
    IF filename \notin DOMAIN fs THEN NoTxt(FileNotFound(filename))
    ELSE LET raw == splitlines(fs[filename])
             data == [i \in 1..Len(raw) |-> Strip(raw[i])]
             title_idx == TitleIdx(data)
         IN IF ~PyIndexOk(data, title_idx + 1) THEN NoTxt(IndexError("data[title_idx + 1]"))
            ELSE IF title_idx # -1 /\ Len(data) - title_idx < 3
            THEN NoTxt(IndexError("del data[title_idx]"))
            ELSE LET cur_song_title == PyIndex(data, title_idx + 1)
                     rest == IF title_idx # -1
                             THEN DeleteAt(DeleteAt(DeleteAt(data, title_idx), title_idx), title_idx)
                             ELSE data
                 IN PreprocessEntry(p, cur_song_title,
                                    WholeFileOperations(Join(rest, <<NL>>)))

\* preprocess raising an error for a file name it refuses
preprocess_raising(p, filename, fs) ==
    IF ~p.loaded THEN NoTxt(AttributeError("preprocess"))
    ELSE IF ~ValidFilename(filename) THEN NoTxt([type |-> "ValueError", what |-> "InvalidFilename"])
    ELSE PreprocessFile(p, filename, fs)

\* PreprocessTxt.preprocess on the object p: the Txt, None for an invalid
\* file name, or the exception raised
preprocess(p, filename, fs) ==
    IF ~p.loaded THEN NoTxt(AttributeError("preprocess"))
    ELSE IF ~ValidFilename(filename) THEN NoTxt(NoErr)
    ELSE PreprocessFile(p, filename, fs)

-----------------------------------------------------------------------------
(* prepare_song_txt_files.py: main                                         *)

\* main up to the batch loop: load the database once for all songs
LoadDatabase ==
    /\ pc = "start"
    /\ prog = "prepare_song_txt_files"
    /\ LET r == NewPreprocessTxt(excel, args.song_name_assignment, rawfs)
           loop == IF file_paths = <<>> THEN "done" ELSE "file"
       IN IF r.err # NoErr
          THEN /\ pp' = NonePP
               /\ log' = Append(log, Printed(None, "ERROR on opening Excel database", r.err))
               /\ pc' = IF args.suppress_error_output THEN loop ELSE "aborted"
          ELSE /\ pp' = [loaded |-> TRUE, df |-> r.df, name_changes |-> r.name_changes]
               /\ pc' = loop
               /\ UNCHANGED log
    /\ UNCHANGED <<prog, args, file_paths, fidx, excel, rawfs, txtfs, docxfs, obj, txt>>

\* pp.preprocess(...) in the batch loop, and the else branch printing "Error!"
Preprocess ==
    /\ pc = "file"
    /\ prog = "prepare_song_txt_files"
    /\ LET file == file_paths[fidx]
           r == preprocess(pp, file, rawfs)
       IN /\ txt' = r.txt
          /\ IF r.err # NoErr
             THEN Except(<<Printed(file, "Processing", NoErr)>>, file, r.err)
             ELSE IF ~r.txt.some
             THEN /\ log' = log \o <<Printed(file, "Processing", NoErr),
                                     Printed(file, "Invalid filename", NoErr),
                                     Printed(file, "Error!", NoErr)>>
                  /\ NextFile
             ELSE /\ log' = Append(log, Printed(file, "Processing", NoErr))
                  /\ pc' = "save"
                  /\ fidx' = fidx
    /\ UNCHANGED <<prog, args, file_paths, excel, pp, rawfs, txtfs, docxfs, obj>>

\* pp.save(txt, ...) of PreprocessTxt and the print after it
SaveTxt ==
    /\ pc = "save"
    /\ prog = "prepare_song_txt_files"
    /\ LET file == file_paths[fidx]
           fn_out == txt.fn_out
       IN IF ~Exists(txtfs, fn_out) \/ args.force_overwrite
          THEN /\ txtfs' = WriteFile(txtfs, fn_out, txt.header \o <<NL>> \o txt.body)
               /\ log' = Append(log, Printed(file, "Finished", NoErr))
               /\ NextFile
          ELSE /\ Except(<<>>, file, FileExists(fn_out))
               /\ UNCHANGED txtfs
    /\ UNCHANGED <<prog, args, file_paths, excel, pp, rawfs, docxfs, obj, txt>>

NextPreprocessor == LoadDatabase \/ Preprocess \/ SaveTxt

\* after the preprocessor has finished, the renderer is run on the text files
\* it wrote (a wildcard argument matching them)
RunRenderer ==
    /\ pc = "done"
    /\ prog = "prepare_song_txt_files"
    /\ DOMAIN txtfs # {}
    /\ prog' = "songs2docx"
    /\ file_paths' \in {fp \in [1..Cardinality(DOMAIN txtfs) -> DOMAIN txtfs] :
                           \A i, j \in DOMAIN fp : i # j => fp[i] # fp[j]}
    /\ fidx' = 1
    /\ pc' = "start"
    /\ UNCHANGED <<args, excel, pp, rawfs, txtfs, docxfs, obj, txt, log>>

-----------------------------------------------------------------------------
(* main of both programs: collecting the files named by args.paths         *)

UnpackError(got) == [type |-> "ValueError", what |-> "Unpack", got |-> got]

SEP == "/"

\* os.path.basename(path): what follows the last separator
Basename(path) ==
    LET at == {i \in 1..Len(path) : path[i] = SEP}
    IN IF at = {} THEN path
       ELSE SubSeq(path, (CHOOSE i \in at : \A j \in at : j <= i) + 1, Len(path))

\* os.path.join(a, b)
PathJoin(a, b) == IF a = <<>> THEN b ELSE IF b = <<>> THEN a ELSE a \o <<SEP>> \o b

STAR == <<"*">>

\* glob.glob(pattern) in a flat directory listed as ls: "*" matches every
\* name, "*" followed by a suffix the names ending in it, another pattern itself
Glob(ls, pattern) ==
    IF pattern # <<>> /\ Head(pattern) = "*"
    THEN SelectSeq(ls, LAMBDA name : EndsWith(name, Tail(pattern)))
    ELSE SelectSeq(ls, LAMBDA name : name = pattern)

\* the loop over args.paths from the first of paths on; an entry of the list
\* is written as the path os.path.join(base_path, rel_path, filename)
RECURSIVE CollectFrom(_, _, _)
CollectFrom(paths, ls, collected) ==
    IF paths = <<>> THEN [err |-> NoErr, file_paths |-> collected]
    ELSE LET path == Head(paths)
             isfile == \E i \in 1..Len(ls) : ls[i] = path
             name == Basename(path)
         IN IF isfile
            THEN IF Len(name) # 2
                 THEN [err |-> UnpackError(Len(name)), file_paths |-> collected]
                 ELSE CollectFrom(Tail(paths), ls,
                          Append(collected, PathJoin(<<name[1]>>, <<name[2]>>)))
            ELSE CollectFrom(Tail(paths), ls, collected \o Glob(ls, path))

\* the listings of a directory, in any order
Listings(fs) ==
    {ls \in [1..Cardinality(DOMAIN fs) -> DOMAIN fs] : \A i, j \in DOMAIN ls : i # j => ls[i] # ls[j]}

\* the argument-collection loop; its exception is not caught by main
CollectPaths ==
    /\ pc = "args"
    /\ \E ls \in Listings(IF prog = "songs2docx" THEN txtfs ELSE rawfs) :
          LET r == CollectFrom(args.paths, ls, <<>>)
          IN IF r.err # NoErr
             THEN /\ pc' = "aborted"
                  /\ log' = Append(log, Printed(None, "Traceback", r.err))
                  /\ UNCHANGED file_paths
             ELSE /\ pc' = "start"
                  /\ file_paths' = r.file_paths
                  /\ UNCHANGED log
    /\ UNCHANGED <<prog, args, fidx, excel, pp, rawfs, txtfs, docxfs, obj, txt>>

NextCollect == CollectPaths \/ NextRenderer \/ NextPreprocessor

NextBatch == NextRenderer \/ NextPreprocessor

NextPipe == NextPreprocessor \/ RunRenderer \/ NextRenderer

-----------------------------------------------------------------------------
(* Inputs                                                                  *)

FileA == <<"a", ".", "t", "x", "t">>

DefaultArgs ==
    [force_overwrite |-> FALSE, suppress_error_output |-> TRUE, song_name_assignment |-> None]

\* all concatenations of at most n strings of the set pieces
Texts(pieces, n) == {Concat(ps) : ps \in UNION {[1..k -> pieces] : k \in 0..n}}

\* the renderer started on the single file a.txt holding one of contents
InitRenderer(contents) ==
    /\ prog = "songs2docx"
    /\ args = DefaultArgs
    /\ file_paths = <<FileA>>
    /\ fidx = 1
    /\ pc = "start"
    /\ excel = NoDb
    /\ pp = NonePP
    /\ rawfs = <<>>
    /\ txtfs \in {[f \in {FileA} |-> c] : c \in contents}
    /\ docxfs = <<>>
    /\ obj = NewObj(None)
    /\ txt = NoneTxt
    /\ log = <<>>

\* header files: every key of the configured order absent, or present with a
\* value, a padded value, a blank value or an empty value; then one of a few tails
HeaderOptions(k) ==
    {<<>>, <<KeyPrefix(keys[k].key) \o <<"x">>>>, <<KeyPrefix(keys[k].key) \o <<" ">>>>}
    \cup (IF keys[k].mand THEN {<<KeyPrefix(keys[k].key)>>} ELSE {})
    \cup (IF keys[k].key = "TAB_INDENT" THEN {<<KeyPrefix(keys[k].key) \o <<"1">>>>} ELSE {})
    \cup (IF keys[k].key = "TITLE_ORIGINAL" THEN {<<KeyPrefix(keys[k].key) \o <<" ", "x">>>>} ELSE {})

RECURSIVE HeaderBlocks(_)
HeaderBlocks(k) ==
    IF k > Len(keys) THEN {<<>>}
    ELSE {h \o t : h \in HeaderOptions(k), t \in HeaderBlocks(k + 1)}

Tails == {<<>>, <<<<>>>>, <<<<>>, <<"x">>>>, <<<<"x">>>>}

HeaderFiles == {Join(h \o t, <<NL>>) : h \in HeaderBlocks(1), t \in Tails}

InitHeader == InitRenderer(HeaderFiles)

SpecHeader == InitHeader /\ [][NextRenderer]_vars

\* body files: a minimal valid header, a blank line and a body made of pieces
MinimalHeader ==
    <<KeyPrefix("TITLE") \o <<"x">>, KeyPrefix("AUTHORS") \o <<"x">>,
      KeyPrefix("COPYRIGHT") \o <<"x">>, <<>> >>

BodyFiles(pieces, n) == {Join(MinimalHeader, <<NL>>) \o <<NL>> \o b : b \in Texts(pieces, n)}

MaxBoldPieces == 7
BoldPieces == {BOLD_OPEN, BOLD_CLOSE, <<"x">>, <<NL>>}

InitBold == InitRenderer(BodyFiles(BoldPieces, MaxBoldPieces))

SpecBold == InitBold /\ [][NextRenderer]_vars

MaxSplitPieces == 6
SplitPieces == {<<"x">>, <<" ">>, <<NBSP>>, <<NL>>}

InitSplit == InitRenderer(BodyFiles(SplitPieces, MaxSplitPieces))

SpecSplit == InitSplit /\ [][NextRenderer]_vars

-----------------------------------------------------------------------------
(* Properties of the renderer                                              *)

\* _read_file has run on the current file; _build_document has run on it
HasRead == log # <<>> /\ obj.filename # None
HasBuilt == HasRead /\ obj.document # <<>>

\* the lines of the file the current object was read from
InputLines == splitlines(txtfs[obj.filename])

\* Reference header scan: the cursor into the lines after the first k keys,
\* a key being present when the line at the cursor begins with KEY=
RECURSIVE RefCursor(_, _)
RefCursor(lines, k) ==
    IF k = 0 THEN 1
    ELSE LET c == RefCursor(lines, k - 1)
         IN IF c <= Len(lines) /\ StartsWith(lines[c], KeyPrefix(keys[k].key))
            THEN c + 1 ELSE c

RefPresent(lines, k) ==
    LET c == RefCursor(lines, k - 1)
    IN c <= Len(lines) /\ StartsWith(lines[c], KeyPrefix(keys[k].key))

RefValue(lines, k) == SliceFrom(lines[RefCursor(lines, k - 1)], Len(KeyPrefix(keys[k].key)))

\* key k is mandatory and absent at its position, or blank there
RefMissing(lines, k) ==
    keys[k].mand /\ (~RefPresent(lines, k) \/ Strip(RefValue(lines, k)) = <<>>)

\* the first missing mandatory key, 0 if there is none
RefFirstMissing(lines) ==
    IF \E k \in 1..Len(keys) : RefMissing(lines, k)
    THEN CHOOSE k \in 1..Len(keys) :
             RefMissing(lines, k) /\ \A j \in 1..(k - 1) : ~RefMissing(lines, j)
    ELSE 0

IsKeyNotDefined(e, key) == \E n \in 0..Len(keys) : e = KeyNotDefined(key, n)

\* C1: whenever a mandatory header field is absent at its expected position or
\* blank, also when the lines run out before it, _read_file fails with the
\* "Key '<KEY>' not defined" ValueError naming the first such field.
C1_MissingMandatoryIsStructuralError ==
    HasRead =>
        LET k == RefFirstMissing(InputLines)
        IN k # 0 => IsKeyNotDefined(obj.err, keys[k].key)


\* Reference: the set of offsets at which sub occurs in s
Occurrences(s, sub) ==
    {i \in 0..(Len(s) - Len(sub)) : SubSeq(s, i + 1, i + Len(sub)) = sub}

\* the n-th smallest element of a set of numbers
Nth(S, n) == CHOOSE x \in S : Cardinality({y \in S : y < x}) = n - 1

\* the text blocks of the current object that are strings
Blocks == {tb \in 1..Len(obj.text) : obj.text[tb] # None}

\* what _build_document does with block t on its own
BlockVerdict(t) == RenderBlock(<<t>>, 1, NewObj(None))

\* C2: _get_bold_indices fails with the tag-count error carrying both counts
\* when the numbers of <b> and </b> differ, and otherwise returns one pair per
\* <b>, the i-th pair being the offsets of the i-th <b> and the i-th </b>.
C2_BoldIndicesCountAndPairing ==
    HasBuilt =>
        \A tb \in Blocks :
            LET t == obj.text[tb]
                opens == Occurrences(t, BOLD_OPEN)
                closes == Occurrences(t, BOLD_CLOSE)
                r == get_bold_indices(t)
            IN /\ Cardinality(opens) # Cardinality(closes) =>
                     /\ r.err = TagCountMismatch(Cardinality(opens), Cardinality(closes))
                     /\ tb = 1 => obj.err = r.err
               /\ Cardinality(opens) = Cardinality(closes) =>
                     /\ r.err = NoErr
                     /\ Len(r.bold_indices) = Cardinality(opens)
                     /\ \A i \in 1..Len(r.bold_indices) :
                            r.bold_indices[i] = <<Nth(opens, i), Nth(closes, i)>>

C2_Witness ==
    /\ HasBuilt
    /\ \E tb \in Blocks : Len(get_bold_indices(obj.text[tb]).bold_indices) = 2
    /\ \E a, b \in 0..3 : a # b /\ obj.err = TagCountMismatch(a, b)

\* Reference: the paired offsets of a block with equal tag counts, flattened
RefFlat(t) ==
    LET opens == Occurrences(t, BOLD_OPEN)
        closes == Occurrences(t, BOLD_CLOSE)
    IN [k \in 1..(2 * Cardinality(opens)) |->
           IF k % 2 = 1 THEN Nth(opens, (k + 1) \div 2) ELSE Nth(closes, k \div 2)]

RefAscending(flat) == \A i, j \in 1..Len(flat) : i < j => flat[i] <= flat[j]

Balanced(t) == Cardinality(Occurrences(t, BOLD_OPEN)) = Cardinality(Occurrences(t, BOLD_CLOSE))

\* C3: a block with equal tag counts is accepted exactly when its flattened
\* paired offsets are ascending and gets the not-ascending error otherwise;
\* the spans of an accepted block satisfy start < end and end <= next start.
C3_AcceptedIffAscending ==
    HasBuilt =>
        \A tb \in Blocks :
            LET t == obj.text[tb]
                flat == RefFlat(t)
                v == BlockVerdict(t)
            IN Balanced(t) =>
                 /\ (v.err = NotAscending(flat)) <=> ~RefAscending(flat)
                 /\ (tb = 1 /\ v.err # NoErr) => obj.err = v.err
                 /\ obj.err = NoErr => v.err = NoErr
                 /\ v.err = NoErr =>
                        /\ \A i \in 1..(Len(flat) \div 2) : flat[2 * i - 1] < flat[2 * i]
                        /\ \A i \in 1..(Len(flat) \div 2 - 1) : flat[2 * i] <= flat[2 * i + 1]

IsNotAscending(e) == e.type = "ValueError" /\ e.what = "NotAscending"

C3_Witness ==
    /\ HasBuilt
    /\ IsNotAscending(obj.err)
    /\ \E tb \in Blocks :
           /\ Balanced(obj.text[tb])
           /\ Len(RefFlat(obj.text[tb])) >= 2
           /\ BlockVerdict(obj.text[tb]).err = NoErr

\* Reference: a line cut at its markers into segments, bold after <b> and
\* plain after </b>
RECURSIVE Segments(_, _, _)
Segments(s, cur, bold) ==
    IF s = <<>> THEN <<[text |-> cur, bold |-> bold]>>
    ELSE IF StartsWith(s, BOLD_OPEN)
    THEN <<[text |-> cur, bold |-> bold]>> \o Segments(SubSeq(s, 4, Len(s)), <<>>, TRUE)
    ELSE IF StartsWith(s, BOLD_CLOSE)
    THEN <<[text |-> cur, bold |-> bold]>> \o Segments(SubSeq(s, 5, Len(s)), <<>>, FALSE)
    ELSE Segments(Tail(s), Append(cur, Head(s)), bold)

NonEmptyText(r) == r.text # <<>>

\* the line with its markers removed
StripMarkers(line) ==
    Concat([i \in 1..Len(Segments(line, <<>>, FALSE)) |-> Segments(line, <<>>, FALSE)[i].text])

RunTexts(runs) == Concat([i \in 1..Len(runs) |-> runs[i].text])

HasMarker(s) == Occurrences(s, BOLD_OPEN) # {} \/ Occurrences(s, BOLD_CLOSE) # {}

\* the paragraphs of style "text" of the current document, in order
TextParagraphs == SelectSeq(obj.document, LAMBDA p : p.style = "text")

\* C4: the Runs of every rendered line, concatenated, are the line without its
\* markers; the non-empty Runs are the line's segments in order, bold exactly
\* for the interior of a span; no Run contains a marker; a line without spans
\* is one plain Run equal to the line.
C4_RunsPartitionLine ==
    HasBuilt =>
        /\ Len(TextParagraphs) = Len(obj.rendered)
        /\ \A i \in 1..Len(obj.rendered) :
               LET line == obj.rendered[i]
                   runs == TextParagraphs[i].runs
                   segs == SelectSeq(Segments(line, <<>>, FALSE), NonEmptyText)
                   shown == SelectSeq(runs, NonEmptyText)
               IN /\ RunTexts(runs) = StripMarkers(line)
                  /\ Len(shown) = Len(segs)
                  /\ \A j \in 1..Len(shown) :
                         shown[j].text = segs[j].text /\ shown[j].bold = segs[j].bold
                  /\ \A j \in 1..Len(runs) : ~HasMarker(runs[j].text)
                  /\ ~HasMarker(line) => runs = <<Run(line, FALSE)>>

\* the three Runs of "X<b>x</b>x", and a line without spans
C4_Witness ==
    /\ HasBuilt
    /\ Len(obj.rendered) = 2
    /\ obj.rendered[1] = <<"X", "<", "b", ">", "x", "<", "/", "b", ">", "x">>
    /\ TextParagraphs[1].runs = <<Run(<<"X">>, FALSE), Run(<<"x">>, TRUE), Run(<<"x">>, FALSE)>>
    /\ TextParagraphs[2].runs = <<Run(<<"X">>, FALSE)>>

\* the first rendered line of block tb, counted from 0
LineBase(tb) ==
    LET n == [j \in 1..Len(obj.text) |-> Len(Split(obj.text[j], NL))]
        F[j \in 0..Len(obj.text)] == IF j = 0 THEN 0 ELSE F[j - 1] + n[j]
    IN F[tb - 1]

\* block tb holds one span, which crosses the only line break of the block
SingleCrossingSpan(tb) ==
    LET t == obj.text[tb]
        opens == Occurrences(t, BOLD_OPEN)
        closes == Occurrences(t, BOLD_CLOSE)
        nls == Occurrences(t, <<NL>>)
    IN /\ t # None
       /\ Cardinality(opens) = 1 /\ Cardinality(closes) = 1 /\ Cardinality(nls) = 1
       /\ \E s \in opens, n \in nls, e \in closes : s < n /\ n < e

\* the text between <b> and </b> of such a block, without the newline
SpanText(tb) ==
    LET t == obj.text[tb]
        s == CHOOSE x \in Occurrences(t, BOLD_OPEN) : TRUE
        e == CHOOSE x \in Occurrences(t, BOLD_CLOSE) : TRUE
    IN SelectSeq(SubSeq(t, s + 4, e), LAMBDA c : c # NL)

\* the text of the bold Runs of the two lines of block tb
BoldText(tb) ==
    LET runs == TextParagraphs[LineBase(tb) + 1].runs \o TextParagraphs[LineBase(tb) + 2].runs
    IN RunTexts(SelectSeq(runs, LAMBDA r : r.bold))

\* the paragraph is one bold Run
FullyBold(runs) == Len(runs) = 1 /\ runs[1].bold

\* the span covers the whole block: "<b>...\n...</b>"
WholeBlockSpan(tb) ==
    /\ StartsWith(obj.text[tb], BOLD_OPEN)
    /\ EndsWith(obj.text[tb], BOLD_CLOSE)

CrossingBlocks == {tb \in 1..Len(obj.text) : SingleCrossingSpan(tb)}

\* C5 as stated: the bold Runs of the two lines are exactly the span's text
C5_BoldRunsAreSpanText ==
    (HasBuilt /\ obj.err = NoErr) =>
        \A tb \in CrossingBlocks : BoldText(tb) = SpanText(tb)

\* C5, amended: re-flowing a block with a single span crossing its only line
\* break yields two lines whose bold Runs, concatenated, are the span's text
\* up to the upper-casing of the capitalization transform; no Run contains a
\* marker; when the span is the whole block both lines are fully bold; a text
\* of one such block is rendered without an error.
C5_BoldRunsAreSpanTextUpToCase ==
    /\ (HasBuilt /\ Len(obj.text) = 1 /\ CrossingBlocks = {1}) => obj.err = NoErr
    /\ (HasBuilt /\ obj.err = NoErr) =>
        \A tb \in CrossingBlocks :
            LET p1 == TextParagraphs[LineBase(tb) + 1]
                p2 == TextParagraphs[LineBase(tb) + 2]
            IN /\ Upper(BoldText(tb)) = Upper(SpanText(tb))
               /\ \A j \in 1..Len(p1.runs) : ~HasMarker(p1.runs[j].text)
               /\ \A j \in 1..Len(p2.runs) : ~HasMarker(p2.runs[j].text)
               /\ WholeBlockSpan(tb) =>
                      FullyBold(p1.runs) /\ FullyBold(p2.runs)

\* "<b>x\nx</b>" rendered as two fully bold lines
C5_Witness ==
    /\ HasBuilt /\ obj.err = NoErr
    /\ obj.text = << <<"<", "b", ">", "x", NL, "x", "<", "/", "b", ">">> >>
    /\ CrossingBlocks = {1}
    /\ FullyBold(TextParagraphs[1].runs) /\ FullyBold(TextParagraphs[2].runs)


\* Reference: the maximal runs of non-blank lines of the body
BlankLine(body, i) == Strip(body[i]) = <<>>

RunStarts(body) ==
    {i \in 1..Len(body) : ~BlankLine(body, i) /\ (i = 1 \/ BlankLine(body, i - 1))}

RunEnd(body, i) ==
    CHOOSE j \in i..Len(body) :
        /\ \A k \in i..j : ~BlankLine(body, k)
        /\ j = Len(body) \/ BlankLine(body, j + 1)

TrimOnly(line) == Strip(line)
TrimAndSpaces(line) == ReplaceChar(Strip(line), NBSP, <<" ">>)

RefStanzas(body, norm(_)) ==
    [r \in 1..Cardinality(RunStarts(body)) |->
        LET i == Nth(RunStarts(body), r)
        IN Join([k \in 1..(RunEnd(body, i) - i + 1) |-> norm(body[i + k - 1])], <<NL>>)]

EndsBlank(body) == body = <<>> \/ BlankLine(body, Len(body))

RefText(body, norm(_)) ==
    RefStanzas(body, norm) \o (IF EndsBlank(body) THEN <<None>> ELSE <<>>)

\* _read_file got through the header and filled self._text
HasSplit == HasRead /\ obj.text # <<>>

\* C9 as stated: the stanzas are the trimmed lines of each maximal run of
\* non-blank body lines joined by a newline, then None if the body ends blank
C9_StanzasAreTrimmedRuns ==
    HasSplit => obj.text = RefText(obj.body, TrimOnly)

\* C9, amended: one stanza per maximal run of body lines that are non-empty
\* after trimming, each the trimmed lines with every no-break space replaced
\* by a space, joined by a newline; the last element is None exactly when the
\* body ends on a blank line or has no non-blank line; every other element is
\* a non-empty string.
C9_StanzasAreNormalizedRuns ==
    HasSplit =>
        /\ obj.text = RefText(obj.body, TrimAndSpaces)
        /\ (obj.text[Len(obj.text)] = None) <=> EndsBlank(obj.body)
        /\ \A i \in 1..(Len(obj.text) - 1) : obj.text[i] # None /\ obj.text[i] # <<>>

\* a stanza of two lines, one of them trimmed, and a final None
C9_Witness ==
    /\ HasSplit
    /\ Len(obj.text) = 2
    /\ obj.text[2] = None
    /\ Occurrences(obj.text[1], <<NL>>) # {}
    /\ \E i \in 1..Len(obj.body) : obj.body[i] # Strip(obj.body[i]) /\ ~BlankLine(obj.body, i)

\* C10: when self._text ends with None, _build_document raises no error,
\* renders nothing for it and the document is completed.
C10_FinalNoneStanzaIsDropped ==
    (HasBuilt /\ obj.text # <<>> /\ obj.text[Len(obj.text)] = None) =>
        /\ obj.err = NoErr
        /\ Len(obj.rendered) = LineBase(Len(obj.text))


-----------------------------------------------------------------------------
(* Batch runs of both programs                                             *)

FileB == <<"b", ".", "t", "x", "t">>
FileC == <<"c", ".", "t", "x", "t">>

FileD == <<"d", ".", "t", "x", "t">>

\* a well-formed song, a song without COPYRIGHT, a song with an unclosed <b>,
\* a song with </b> before <b>
GoodSong == Join(MinimalHeader \o << <<"x">> >>, <<NL>>)
NoCopyrightSong == Join(<<KeyPrefix("TITLE") \o <<"x">>, KeyPrefix("AUTHORS") \o <<"x">>,
                          <<>>, <<"x">> >>, <<NL>>)
UnclosedBoldSong == Join(MinimalHeader \o << <<"<", "b", ">", "x">> >>, <<NL>>)

UnorderedBoldSong == Join(MinimalHeader \o << <<"x">> \o BOLD_CLOSE \o BOLD_OPEN >>, <<NL>>)

SongFiles ==
    (FileA :> GoodSong) @@ (FileB :> NoCopyrightSong) @@ (FileC :> UnclosedBoldSong)
    @@ (FileD :> UnorderedBoldSong)

\* a document written by an earlier run
OldDocument == <<add_paragraph(<<"o", "l", "d">>, "title")>>

\* raw exports: one with a database entry, one without, one with a bad name
RawG == <<"g", "_", "A", "P", "_", "2", "0", "1", "0", "1", "3", ".", "t", "x", "t">>
RawN == <<"n", "_", "A", "P", "_", "2", "0", "1", "0", "1", "3", ".", "t", "x", "t">>
RawI == <<"i", ".", "t", "x", "t">>

RawExport(title) == Join(<<TITEL, title, <<>>, <<"x">> >>, <<NL>>)

RawFiles == (RawG :> RawExport(<<"x">>)) @@ (RawN :> RawExport(<<"n">>))
            @@ (RawI :> RawExport(<<"x">>))

Row(title, title_original, lang_original, year_original, year_translation, german_translation, ref_no, copy_right) ==
    [TITLE |-> title, TITLE_ORIGINAL |-> title_original, LANG_ORIGINAL |-> lang_original,
     YEAR_ORIGINAL |-> year_original, YEAR_TRANSLATION |-> year_translation,
     GERMAN_TRANSLATION |-> german_translation, REF_NO |-> ref_no, COPYRIGHT |-> copy_right]

PlainRow == Row(<<"X">>, NaN, NaN, NaN, NaN, NaN, <<"r">>, <<"a", NL, "c">>)

\* the text file the preprocessor writes for RawG with PlainRow
OutG == <<"x", " ", "r", ".", "t", "x", "t">>

MaxFiles == 3

FileLists(names) == UNION {[1..n -> names] : n \in 0..MaxFiles}

InitBatch ==
    /\ prog \in {"songs2docx", "prepare_song_txt_files"}
    /\ args \in [force_overwrite : BOOLEAN, suppress_error_output : BOOLEAN,
                 song_name_assignment : {None}]
    /\ fidx = 1
    /\ pc = "start"
    /\ obj = NewObj(None)
    /\ txt = NoneTxt
    /\ pp = NonePP
    /\ log = <<>>
    /\ \/ /\ prog = "songs2docx"
          /\ file_paths \in FileLists(DOMAIN SongFiles)
          /\ excel = NoDb
          /\ rawfs = <<>>
          /\ txtfs = SongFiles
          /\ docxfs \in {<<>>, DocxName(FileA) :> OldDocument, DocxName(FileD) :> OldDocument}
       \/ /\ prog = "prepare_song_txt_files"
          /\ file_paths \in FileLists(DOMAIN RawFiles)
          /\ excel \in {NoDb, Db(<<PlainRow>>)}
          /\ rawfs = RawFiles
          /\ txtfs \in {<<>>, OutG :> <<"o", "l", "d">>}
          /\ docxfs = <<>>

SpecBatch == InitBatch /\ [][NextBatch]_vars

\* main is still in its loop, or before it
Running == pc \notin {"done", "aborted"}

\* main runs to its end: a running main always takes its next step. NextBatch
\* is enabled exactly where Running holds (every guard asks for pc in start,
\* file, build or save, and each of these has a step), so the second conjunct
\* is WF_vars(NextBatch) with its ENABLED written as the state predicate.
FairBatch ==
    /\ SpecBatch
    /\ WF_vars(Start)
    /\ ([]<>(~Running) \/ []<><<NextBatch>>_vars)


\* the files main has started on, in order, and the per-file errors it printed
Attempted ==
    LET ps == SelectSeq(log, LAMBDA e : e.event = "Processing")
    IN [i \in 1..Len(ps) |-> ps[i].file]

Errors == SelectSeq(log, LAMBDA e : e.event = "ERROR")

IsPrefix(a, b) == Len(a) <= Len(b) /\ a = SubSeq(b, 1, Len(a))

\* files are attempted in list order; with suppression the run never aborts;
\* without it the first error is the last thing that happens
BatchOrder ==
    /\ IsPrefix(Attempted, file_paths)
    /\ args.suppress_error_output => pc # "aborted"
    /\ (~args.suppress_error_output /\ Errors # <<>>) =>
           /\ pc = "aborted"
           /\ Len(Errors) = 1
           /\ log[Len(log)] = Errors[1]
           /\ Errors[1].file = Attempted[Len(Attempted)]

\* C6: in both batch loops, with error suppression every file of the list is
\* eventually attempted, in list order, whatever earlier files raised; without
\* suppression the first per-file error aborts the run and no later file is
\* attempted.
C6_EveryFileAttempted ==
    /\ []BatchOrder
    /\ <>(args.suppress_error_output => (pc = "done" /\ Attempted = file_paths))
    /\ <>(pc \in {"done", "aborted"})

\* three files, the first failed, the run went on to the end
C6_Witness ==
    /\ pc = "done"
    /\ Len(file_paths) = 3
    /\ Attempted = file_paths
    /\ Errors # <<>> /\ Errors[1].file = file_paths[1]
    /\ log[Len(log)].event = "Finished"

\* the step taken by save in either program
SaveStep ==
    /\ (pc = "save" /\ prog = "songs2docx") =>
           LET fn_out == DocxName(file_paths[fidx])
           IN IF fn_out \in DOMAIN docxfs /\ ~args.force_overwrite
              THEN /\ docxfs' = docxfs
                   /\ log'[Len(log')].err = FileExists(fn_out)
              ELSE /\ DOMAIN docxfs' = DOMAIN docxfs \cup {fn_out}
                   /\ docxfs'[fn_out] = obj.document
                   /\ \A f \in DOMAIN docxfs \ {fn_out} : docxfs'[f] = docxfs[f]
                   /\ log'[Len(log')].err = NoErr
    /\ (pc = "save" /\ prog = "prepare_song_txt_files") =>
           LET fn_out == txt.fn_out
           IN IF fn_out \in DOMAIN txtfs /\ ~args.force_overwrite
              THEN /\ txtfs' = txtfs
                   /\ log'[Len(log')].err = FileExists(fn_out)
              ELSE /\ DOMAIN txtfs' = DOMAIN txtfs \cup {fn_out}
                   /\ txtfs'[fn_out] = txt.header \o <<NL>> \o txt.body
                   /\ \A f \in DOMAIN txtfs \ {fn_out} : txtfs'[f] = txtfs[f]
                   /\ log'[Len(log')].err = NoErr

\* C7: Txt2Docx.save and PreprocessTxt.save raise FileExistsError and leave the
\* existing file unchanged when the output path exists and force_overwrite is
\* false; otherwise they write the file.
C7_SaveRespectsExistingFile == [][SaveStep]_vars

\* an existing document survived a save that raised FileExistsError
C7_Witness ==
    /\ ~args.force_overwrite
    /\ DocxName(FileA) \in DOMAIN docxfs
    /\ docxfs[DocxName(FileA)] = OldDocument
    /\ \E i \in 1..Len(log) : log[i].err = FileExists(DocxName(FileA))

-----------------------------------------------------------------------------
(* The preprocessor followed by the renderer                               *)

CellsTitleOriginal == {NaN, <<"x">>, <<"o">>}
CellsLang == {NaN, <<"E", "N">>}
CellsYear == {NaN, <<"1">>}
CellsGerman == {NaN, <<"g">>}
CellsRefNo == {NaN, <<"r">>}
CellsCopyright == {<<"a", NL, "c">>, <<"a">>, <<NL, "c">>, <<"a", NL, " ">>}

InitPipe ==
    /\ prog = "prepare_song_txt_files"
    /\ args = DefaultArgs
    /\ file_paths = <<RawG>>
    /\ fidx = 1
    /\ pc = "start"
    /\ excel \in {Db(<<Row(<<"X">>, to, lo, yo, yt, gt, rn, cr)>>) :
                     to \in CellsTitleOriginal, lo \in CellsLang, yo \in CellsYear,
                     yt \in CellsYear, gt \in CellsGerman, rn \in CellsRefNo,
                     cr \in CellsCopyright}
    /\ pp = NonePP
    /\ rawfs = RawFiles
    /\ txtfs = <<>>
    /\ docxfs = <<>>
    /\ obj = NewObj(None)
    /\ txt = NoneTxt
    /\ log = <<>>

SpecPipe == InitPipe /\ [][NextPipe]_vars

\* the value the header txt.header gives to key, None when it has no such line
EmittedValue(key) ==
    LET ls == splitlines(txt.header)
    IN IF \E i \in 1..Len(ls) : StartsWith(ls[i], KeyPrefix(key))
       THEN SliceFrom(ls[CHOOSE i \in 1..Len(ls) : StartsWith(ls[i], KeyPrefix(key))],
                      Len(KeyPrefix(key)))
       ELSE None

\* C8: every file written by the preprocessor is accepted by the header parser
\* of the renderer without a structural error, AUTHORS and COPYRIGHT being
\* recovered as emitted.
C8_PreprocessedHeaderIsAccepted ==
    (prog = "songs2docx" /\ HasRead /\ txt.some) =>
        /\ \A k \in 1..Len(keys) : ~IsKeyNotDefined(obj.err, keys[k].key)
        /\ DictGet(obj.values, "AUTHORS") = EmittedValue("AUTHORS")
        /\ DictGet(obj.values, "COPYRIGHT") = EmittedValue("COPYRIGHT")

-----------------------------------------------------------------------------
(* The database lookup of the preprocessor                                 *)

AB_DASH == <<"a", EN_DASH, "b">>
AB_HYPHEN == <<"a", "-", "b">>

QueryTitles == {AB_DASH, AB_HYPHEN, <<"A", EN_DASH, "B">>, <<"b">>}

TableTitles ==
    {AB_DASH, AB_HYPHEN, <<" ", "A", "-", "B", " ">>, MESSE \o AB_HYPHEN,
     <<"M", "e", "s", "s", "e", " ">> \o AB_DASH, <<"M", "E", "S", "S", "E", " ", "B">>, NaN}

MaxRows == 2

\* the row number serves as REF_NO, so that the header tells the row used
LookupRow(title, n) == Row(title, NaN, NaN, NaN, NaN, NaN, <<IF n = 1 THEN "1" ELSE "2">>, <<"a", NL, "c">>)

LookupTables ==
    UNION {{[i \in 1..n |-> LookupRow(ts[i], i)] : ts \in [1..n -> TableTitles]} : n \in 0..MaxRows}

InitLookup ==
    /\ prog = "prepare_song_txt_files"
    /\ args \in [force_overwrite : {FALSE}, suppress_error_output : BOOLEAN,
                 song_name_assignment : {None}]
    /\ file_paths = <<RawG>>
    /\ fidx = 1
    /\ pc = "start"
    /\ excel \in {Db(t) : t \in LookupTables}
    /\ pp = NonePP
    /\ rawfs \in {[f \in {RawG} |-> RawExport(q)] : q \in QueryTitles}
    /\ txtfs = <<>>
    /\ docxfs = <<>>
    /\ obj = NewObj(None)
    /\ txt = NoneTxt
    /\ log = <<>>

SpecLookup == InitLookup /\ [][NextPreprocessor]_vars

\* preprocess has run on the file
Preprocessed == \E i \in 1..Len(log) : log[i].event = "Processing"

\* the title line of the raw export
QueryTitle == Strip(splitlines(rawfs[file_paths[1]])[2])

\* Reference: equality of two strings up to the case of their letters
CasePairs == {<<"A", "a">>, <<"B", "b">>, <<"M", "m">>, <<"E", "e">>, <<"S", "s">>}

SameIgnoringCase(a, b) ==
    /\ Len(a) = Len(b)
    /\ \A i \in 1..Len(a) :
           a[i] = b[i] \/ <<a[i], b[i]>> \in CasePairs \/ <<b[i], a[i]>> \in CasePairs

Dashless(s) == [i \in 1..Len(s) |-> IF s[i] = EN_DASH THEN "-" ELSE s[i]]

\* Reference: the query of the k-th probe
RefQuery(k) ==
    CASE k = 1 -> QueryTitle
      [] k = 2 -> Dashless(QueryTitle)
      [] k = 3 -> <<"m", "e", "s", "s", "e", " ">> \o Dashless(QueryTitle)

RefMatches(k) ==
    {i \in 1..Len(excel.rows) :
        /\ excel.rows[i].TITLE # NaN
        /\ SameIgnoringCase(Strip(excel.rows[i].TITLE), RefQuery(k))}

\* the first probe with a match, 0 when no probe matches
RefProbe ==
    IF \E k \in 1..3 : RefMatches(k) # {}
    THEN CHOOSE k \in 1..3 : RefMatches(k) # {} /\ \A j \in 1..(k - 1) : RefMatches(j) = {}
    ELSE 0

\* C11: preprocess takes the row of the first of the three probes (equality
\* up to case with the trimmed table title; the same with the en dash of the
\* query replaced by a hyphen; the same with "messe " prepended) that has a
\* match, and raises the lookup error naming the title when none has.
C11_LookupProbesInOrder ==
    Preprocessed =>
        IF RefProbe = 0
        THEN /\ ~txt.some
             /\ log[Len(log)].event = "ERROR"
             /\ log[Len(log)].err = EntryNotFound(QueryTitle)
        ELSE /\ txt.some
             /\ EmittedValue("REF_NO") =
                    excel.rows[CHOOSE i \in RefMatches(RefProbe) :
                                  \A j \in RefMatches(RefProbe) : i <= j].REF_NO

\* the second row matched the title only after the dash was replaced
C11_Witness ==
    /\ Preprocessed /\ txt.some
    /\ RefProbe = 2
    /\ RefMatches(3) # {}
    /\ EmittedValue("REF_NO") = <<"2">>

-----------------------------------------------------------------------------
(* Collecting the files of the command line                                *)

FileAB == <<"a", "b">>

MaxPaths == 2

\* an existing file, an existing file with a name of two characters, two
\* wildcards and a name that matches nothing
PathArgs(fs) == DOMAIN fs \cup {STAR, STAR \o DOT_TXT, <<"z">>}

InitCollect ==
    /\ prog \in {"songs2docx", "prepare_song_txt_files"}
    /\ IF prog = "songs2docx"
       THEN /\ txtfs = (FileA :> GoodSong) @@ (FileAB :> GoodSong)
            /\ rawfs = <<>>
            /\ excel = NoDb
       ELSE /\ rawfs = (RawG :> RawExport(<<"x">>)) @@ (FileAB :> RawExport(<<"x">>))
            /\ txtfs = <<>>
            /\ excel = Db(<<PlainRow>>)
    /\ \E n \in 1..MaxPaths :
          \E ps \in [1..n -> PathArgs(IF prog = "songs2docx" THEN txtfs ELSE rawfs)] :
             \E suppress \in BOOLEAN :
                args = [force_overwrite |-> FALSE, suppress_error_output |-> suppress,
                        song_name_assignment |-> None, paths |-> ps]
    /\ file_paths = <<>>
    /\ fidx = 1
    /\ pc = "args"
    /\ pp = NonePP
    /\ docxfs = <<>>
    /\ obj = NewObj(None)
    /\ txt = NoneTxt
    /\ log = <<>>

SpecCollect == InitCollect /\ [][NextCollect]_vars

\* the directory the arguments are resolved in
ArgFiles == IF prog = "songs2docx" THEN DOMAIN txtfs ELSE DOMAIN rawfs

\* Reference: one entry for an argument naming a file, one entry per match of
\* a wildcard, in the order of the arguments
RECURSIVE RefCollected(_, _)
RefCollected(paths, ls) ==
    IF paths = <<>> THEN <<>>
    ELSE (IF Head(paths) \in ArgFiles THEN <<Head(paths)>>
          ELSE SelectSeq(ls, LAMBDA name :
                   \/ Head(paths) = <<"*">>
                   \/ Head(paths) = <<"*", ".", "t", "x", "t">>
                      /\ Len(name) >= 4 /\ SubSeq(name, Len(name) - 3, Len(name)) = <<".", "t", "x", "t">>))
         \o RefCollected(Tail(paths), ls)

\* C12: the argument-collection loop adds one entry for every argument that
\* names an existing file and one entry per file matching a wildcard
\* argument, and the batch loop is then entered with these entries.
C12_EveryNamedFileIsCollected ==
    pc # "args" =>
        /\ \A i \in 1..Len(log) : log[i].event # "Traceback"
        /\ \E ls \in Listings([f \in ArgFiles |-> f]) : file_paths = RefCollected(args.paths, ls)

\* Reference: the name has 14 characters or more, the first four of its last
\* fourteen being "_AP_"
RefValidName(filename) ==
    /\ Len(filename) >= 14
    /\ \A k \in 1..4 : filename[Len(filename) - 14 + k] = <<"_", "A", "P", "_">>[k]

\* the step of the batch loop on a file whose name is refused
InvalidNameStep ==
    (pc = "file" /\ prog = "prepare_song_txt_files" /\ pp.loaded
        /\ ~RefValidName(file_paths[fidx])) =>
        LET file == file_paths[fidx]
        IN /\ log' = log \o <<Printed(file, "Processing", NoErr),
                               Printed(file, "Invalid filename", NoErr),
                               Printed(file, "Error!", NoErr)>>
           /\ ~txt'.some
           /\ txtfs' = txtfs
           /\ fidx' = fidx + 1
           /\ pc' = IF fidx < Len(file_paths) THEN "file" ELSE "done"

\* C13: for a file name shorter than 14 characters or without "_AP_" at
\* [-14:-10], preprocess logs the name and returns None without reading the
\* file and without an exception; the batch loop writes nothing for it and
\* goes on, also when errors are not suppressed.
C13_InvalidFilenameIsSkipped == [][InvalidNameStep]_vars

\* without suppression, a refused name of a file that does not exist was
\* skipped and the next file was written
C13_Witness ==
    /\ prog = "prepare_song_txt_files" /\ ~args.suppress_error_output
    /\ pc = "done"
    /\ Len(file_paths) >= 2
    /\ file_paths[1] \notin DOMAIN rawfs
    /\ \E i \in 1..Len(log) : log[i].event = "Invalid filename" /\ log[i].file = file_paths[1]
    /\ log[Len(log)].event = "Finished"

-----------------------------------------------------------------------------
(* The header of a song file                                               *)

\* the position in the configured order of the key a line begins with, 0 if none
KeyIndex(line) ==
    IF \E k \in 1..Len(keys) : StartsWith(line, KeyPrefix(keys[k].key))
    THEN CHOOSE k \in 1..Len(keys) : StartsWith(line, KeyPrefix(keys[k].key))
    ELSE 0

\* the text after KEY= of a header line
ValueOf(line) == SliceFrom(line, Len(KeyPrefix(keys[KeyIndex(line)].key)))

\* the first n lines are a well-formed header block and line n + 1 is a body line
WellFormedHeader(lines, n) ==
    /\ n \in 1..(Len(lines) - 1)
    /\ \A i \in 1..n : KeyIndex(lines[i]) # 0 /\ Strip(ValueOf(lines[i])) # <<>>
    /\ \A i \in 1..(n - 1) : KeyIndex(lines[i]) < KeyIndex(lines[i + 1])
    /\ \A k \in 1..Len(keys) : keys[k].mand => \E i \in 1..n : KeyIndex(lines[i]) = k
    /\ KeyIndex(lines[n + 1]) <= KeyIndex(lines[n])

\* the mapping written out as KEY=VALUE lines in mapping order
Serialized(values) == [i \in 1..Len(values) |-> KeyChars(values[i].key) \o <<"=">> \o values[i].value]

C15_ErrorNamesExpectedLine ==
    HasRead =>
        \A k \in 1..Len(keys) :
            IsKeyNotDefined(obj.err, keys[k].key) =>
                obj.err = KeyNotDefined(keys[k].key, RefCursor(InputLines, k - 1))

\* the keys tried by the header loop: all of them, or those up to the one
\* the structural error names
Tried ==
    IF \E k \in 1..Len(keys) : IsKeyNotDefined(obj.err, keys[k].key)
    THEN CHOOSE k \in 1..Len(keys) : IsKeyNotDefined(obj.err, keys[k].key)
    ELSE Len(keys)

\* C16: as long as there is a line to try, the header loop consumes a line
\* only when it begins with KEY= for the key expected; a line that does not match stays and the optional key is
\* absent; a matched line with a blank value is consumed and the key is
\* absent; the lines left for the stanza splitter are the input lines without
\* the matched header lines, in their order.
C16_OnlyMatchedLinesAreConsumed ==
    (HasRead /\ obj.err # IndexError("lines[0]")) =>
        /\ obj.body = SubSeq(InputLines, RefCursor(InputLines, Tried), Len(InputLines))
        /\ \A k \in 1..Tried :
              (DictGet(obj.values, keys[k].key) # None)
                  <=> (RefPresent(InputLines, k) /\ Strip(RefValue(InputLines, k)) # <<>>)
        /\ \A k \in 1..Tried :
              DictGet(obj.values, keys[k].key) # None
                  => DictGet(obj.values, keys[k].key) = RefValue(InputLines, k)

\* a file was read whose TAB_INDENT line has a blank value and whose
\* TITLE_ORIGINAL line is missing: the first is gone from the lines left, the
\* key is absent, and the lines after it are left
C16_Witness ==
    /\ HasRead /\ obj.err = NoErr
    /\ RefPresent(InputLines, Len(keys))
    /\ Strip(RefValue(InputLines, Len(keys))) = <<>>
    /\ ~RefPresent(InputLines, 2)
    /\ DictGet(obj.values, "TAB_INDENT") = None
    /\ obj.body = << <<>>, <<"x">> >>

\* the lines run out before key k is tried, every mandatory key being there
ExhaustedAt(lines, k) ==
    /\ RefCursor(lines, k - 1) > Len(lines)
    /\ \A j \in 1..Len(keys) : keys[j].mand => (j < k /\ ~RefMissing(lines, j))

\* C17: when the lines run out before every key was tried, the header loop
\* takes the remaining optional keys as absent and ends without an error.
C17_ExhaustedLinesLeaveOptionalKeysAbsent ==
    (HasRead /\ \E k \in 1..Len(keys) : ExhaustedAt(InputLines, k)) =>
        /\ obj.err = NoErr
        /\ DictGet(obj.values, "TAB_INDENT") = None

-----------------------------------------------------------------------------
(* The lines of a stanza                                                   *)

\* Reference: the stanza passes the validation of the whole stanza
Validated(t) == t # None /\ Balanced(t) /\ RefAscending(RefFlat(t))

\* Reference: the j-th line break of the stanza lies inside a span, more
\* opening than closing markers standing before it
Crossing(t, j) ==
    LET at == Nth(Occurrences(t, <<NL>>), j)
    IN Cardinality({s \in Occurrences(t, BOLD_OPEN) : s < at})
           > Cardinality({e \in Occurrences(t, BOLD_CLOSE) : e < at})

\* Reference: the lines of the stanza with the synthetic markers
RefInjected(t) ==
    LET ls == Split(t, NL)
    IN [j \in 1..Len(ls) |->
           (IF j > 1 /\ Crossing(t, j - 1) THEN BOLD_OPEN ELSE <<>>)
           \o ls[j]
           \o (IF j < Len(ls) /\ Crossing(t, j) THEN BOLD_CLOSE ELSE <<>>)]

\* the lines of all stanzas of the current text with the synthetic markers
AllInjected == Concat([tb \in 1..Len(obj.text) |-> RefInjected(obj.text[tb])])

\* C18: when every stanza passes the validation of the whole stanza, the
\* lines after the injection are the lines of the stanza with </b> appended
\* before and <b> prepended after each line break inside a span and nothing
\* at the other line breaks (up to the capitalization); every such line has
\* as many <b> as </b>, its spans ascending, and _get_bold_indices raises on
\* none of them, also for a span over two line breaks or more.
C18_InjectedLinesAreWellFormed ==
    (HasBuilt /\ \A tb \in 1..Len(obj.text) : Validated(obj.text[tb])) =>
        /\ obj.err = NoErr
        /\ Len(obj.rendered) = Len(AllInjected)
        /\ \A i \in 1..Len(obj.rendered) :
               LET line == obj.rendered[i]
               IN /\ Upper(line) = Upper(AllInjected[i])
                  /\ Balanced(line)
                  /\ RefAscending(RefFlat(line))
                  /\ get_bold_indices(line).err = NoErr

\* a span over two line breaks, rendered as three lines
C18_Witness ==
    /\ HasBuilt /\ obj.err = NoErr
    /\ Len(obj.text) = 1 /\ Validated(obj.text[1])
    /\ Cardinality(Occurrences(obj.text[1], BOLD_OPEN)) = 1
    /\ Cardinality(Occurrences(obj.text[1], <<NL>>)) = 2
    /\ Crossing(obj.text[1], 1) /\ Crossing(obj.text[1], 2)
    /\ Len(obj.rendered) = 3
    /\ obj.rendered[2] = BOLD_OPEN \o <<"X">> \o BOLD_CLOSE

\* C19: no Run of a rendered line has an empty text: none for an empty gap
\* before a span, none after a closing marker that ends the line, and no bold
\* Run for a span with an empty interior.
C19_NoEmptyRun ==
    HasBuilt =>
        \A i \in 1..Len(TextParagraphs) :
            \A j \in 1..Len(TextParagraphs[i].runs) : TextParagraphs[i].runs[j].text # <<>>

-----------------------------------------------------------------------------
(* The capitalization of the lines of a stanza                             *)

LABEL_A == <<"A", ":", " ">>
LABEL_BAR == <<"|", ":", " ">>

MaxCapPieces == 4
CapPieces == {LABEL_A, LABEL_BAR, <<"x">>, <<NL>>}

InitCap == InitRenderer(BodyFiles(CapPieces, MaxCapPieces))

SpecCap == InitCap /\ [][NextRenderer]_vars

\* the lines of all stanzas of the current text
StanzaLines == Concat([tb \in 1..Len(obj.text) |-> Split(obj.text[tb], NL)])

\* Reference: position p of the line is the first, or follows "A: " or "V: "
Capitalized(line, p) ==
    \/ p = 1
    \/ p >= 4 /\ line[p - 3] \in {"A", "V"} /\ line[p - 2] = ":" /\ line[p - 1] = " "

\* Reference: the line with exactly those positions in upper case
RefCap(line) ==
    Concat([p \in 1..Len(line) |-> IF Capitalized(line, p) THEN UpperChar(line[p]) ELSE <<line[p]>>])

\* C20: the capitalization upper-cases the first character of every line and
\* the character after each "A: " or "V: ", leaves every other character as
\* it is, and raises no IndexError on a line of a stanza.
C20_CapitalizationTouchesOnlyLabelledCharacters ==
    (HasBuilt /\ \A tb \in 1..Len(obj.text) : obj.text[tb] # None) =>
        /\ obj.err = NoErr
        /\ obj.rendered = [i \in 1..Len(StanzaLines) |-> RefCap(StanzaLines[i])]

-----------------------------------------------------------------------------
(* The authors line of the document                                        *)

\* Reference: the trimmed value of the k-th key when its line is there with a
\* non-blank value, None otherwise
RefField(k) ==
    IF RefPresent(InputLines, k) /\ Strip(RefValue(InputLines, k)) # <<>>
    THEN Strip(RefValue(InputLines, k)) ELSE None

CAPO_KEY == CHOOSE k \in 1..Len(keys) : keys[k].key = "CAPO"
AUTHORS_KEY == CHOOSE k \in 1..Len(keys) : keys[k].key = "AUTHORS"

\* the text of the paragraph of style "authors" of the current document
AuthorsLine ==
    RunTexts(SelectSeq(obj.document, LAMBDA p : p.style = "authors")[1].runs)

\* C21: the authors line of the document ends in TAB "Capo " and the CAPO
\* value exactly when the header holds a non-blank CAPO field; without one
\* it is the AUTHORS value alone, whatever other optional fields are there.
C21_CapoSuffixOnlyForCapoField ==
    (HasBuilt /\ obj.err = NoErr) =>
        AuthorsLine = IF RefField(CAPO_KEY) # None
                      THEN RefField(AUTHORS_KEY) \o <<TAB>> \o <<"C", "a", "p", "o", " ">>
                               \o RefField(CAPO_KEY)
                      ELSE RefField(AUTHORS_KEY)

-----------------------------------------------------------------------------
(* The documents left by a file that fails                                 *)

\* Reference: the stanzas of a song file
StanzasOf(content) ==
    LET lines == splitlines(content)
    IN RefStanzas(SubSeq(lines, RefCursor(lines, Len(keys)), Len(lines)), TrimAndSpaces)

\* Reference: the file misses a mandatory field, or one of its stanzas has
\* unequal counts of <b> and </b> or markers out of order
RefFails(content) ==
    \/ RefFirstMissing(splitlines(content)) # 0
    \/ \E s \in 1..Len(StanzasOf(content)) :
           LET t == StanzasOf(content)[s]
           IN ~Balanced(t) \/ ~RefAscending(RefFlat(t))

\* an error of one of the three kinds
IsRenderFailure(e) ==
    e.type = "ValueError" /\ e.what \in {"KeyNotDefined", "TagCount", "NotAscending"}

\* a step of the renderer on a failing file: the error is printed from the
\* construction of Txt2Docx, save is not reached, no document changes
FailedFileStep ==
    (prog = "songs2docx" /\ pc \in {"file", "build", "save"}
        /\ RefFails(txtfs[file_paths[fidx]])) =>
        /\ docxfs' = docxfs
        /\ pc # "save" /\ pc' # "save"
        /\ log' # log =>
              /\ log'[Len(log')].event \in {"Processing", "ERROR"}
              /\ log'[Len(log')].event = "ERROR" => IsRenderFailure(log'[Len(log')].err)

\* C22: when a file fails in the renderer with a structural, tag-count or
\* unordered-marker error, the error comes from the construction of Txt2Docx,
\* save is not reached, and no .docx file is written or overwritten: the
\* documents are the same after every step taken on that file.
C22_FailedFileWritesNothing == [][FailedFileStep]_vars

\* with force_overwrite, the file with </b> before <b> has failed and its
\* document of an earlier run is still there
C22_Witness ==
    /\ prog = "songs2docx" /\ args.force_overwrite
    /\ Len(log) >= 1
    /\ log[Len(log)].event = "ERROR"
    /\ log[Len(log)].file = FileD
    /\ log[Len(log)].err.type = "ValueError" /\ log[Len(log)].err.what = "NotAscending"
    /\ DocxName(FileD) \in DOMAIN docxfs
    /\ docxfs[DocxName(FileD)] = OldDocument
    /\ \E i \in 1..Len(log) : IsRenderFailure(log[i].err) /\ log[i].err.what = "KeyNotDefined"

====
